---- MODULE Spec2Model ----
(***************************************************************************)
(* Daily Work Management (src/app.py): the sqlite store of users and tasks, *)
(* the helper functions that read and write it, and the two computations    *)
(* of the pages (pending duration, day-wise summary).                       *)
(*                                                                          *)
(* Sessions run as threads of one server on one database file.  A helper    *)
(* that writes reads the clock first and runs its one SQL statement later,  *)
(* holding no lock in between: it is two steps, and steps of other sessions *)
(* and of the clock come between them.                                      *)
(*                                                                          *)
(* Encodings.                                                               *)
(*  - A timestamp string 'YYYY-MM-DD HH:MM:SS' is the number of seconds of  *)
(*    that wall-clock reading since the wall-clock reading of the model's   *)
(*    epoch; strftime drops the zone, so a timestamp written in zone z at   *)
(*    the instant c is c + offset(z).  SQL NULL / Python None is NULL.      *)
(*  - A task_date string 'YYYY-MM-DD' is its day number (the strings sort   *)
(*    lexicographically as the days do); None and '' are NoDate.            *)
(*  - A task_time string is 0 for '' and 1 + 60*HH + MM for 'HH:MM' (the    *)
(*    empty string sorts before every 'HH:MM').                             *)
(***************************************************************************)
EXTENDS Integers, Sequences, FiniteSets, TLC

VARIABLES
    users,      \* rows of table users, in id order
    tasks,      \* rows of table tasks, in id order
    clock,      \* the instant (seconds, UTC) the system clock shows
    tz,         \* UTC offset (seconds) of the server's local time zone
    pc,         \* per session: the helper it is inside, after its clock read
    frame,      \* per session: the arguments and locals of that call
    ret,        \* what the last register_user / login_user call returned
    locked,     \* a connection left open inside a transaction holds the
                \* write lock of the database file
    lastChange  \* history: the row the last recorded UPDATE replaced

vars == <<users, tasks, clock, tz, pc, frame, ret, locked, lastChange>>

----------------------------------------------------------------------------
\* Bounds of the model
MaxUsers == 2
MaxTasks == 2
MaxTodayTasks == 1
MaxTicks == 1

\* Inputs
Usernames == {"alice", "bob"}
Passwords == {"pw1", "pw2"}
UserIds == {1, 2}
Titles == {"Write report"}
Descriptions == {""}
Dates == {1, 2}
HistoryDates == {0, 1, 2}
NewStatuses == {"pending", "done", "archived"}
Sessions == {1, 2}
ClockStep == 86400
TzOffsets == {0, 19800}

\* Program constants
NULL == -1
NoDate == 0
IstOffset == 19800
EmptyTime == 0

----------------------------------------------------------------------------
\* Clock readings

\* datetime.now(ist).strftime(...)
NowIst == clock + IstOffset

\* datetime.now().astimezone().strftime(...)
NowLocal == clock + tz

\* datetime.utcnow()
UtcNow == clock

----------------------------------------------------------------------------
\* Helpers for SELECT

Rank(keys, i) ==
    Cardinality({j \in DOMAIN keys :
                    keys[j] < keys[i] \/ (keys[j] = keys[i] /\ j < i)}) + 1

\* ORDER BY: rows come out of the table scan in id order and are sorted by key
OrderBy(rows, keys) ==
    [p \in 1..Len(rows) |-> rows[CHOOSE i \in DOMAIN rows : Rank(keys, i) = p]]

Range(s) == {s[i] : i \in DOMAIN s}

----------------------------------------------------------------------------
\* Calls in progress

NoFrame == [username |-> "", password |-> "", user_id |-> 0, title |-> "",
            description |-> "", task_date |-> NoDate, task_time |-> NULL,
            task_id |-> 0, new_status |-> "", now |-> NULL]

\* the sessions inside a call of the helper
Inside(helper) == {s \in Sessions : pc[s] = helper}

\* the session leaves its call
Return(s) ==
    /\ pc' = [pc EXCEPT ![s] = "idle"]
    /\ frame' = [frame EXCEPT ![s] = NoFrame]

----------------------------------------------------------------------------
\* Auth helpers

hash_password(password) ==
    CASE password = "pw1" ->
            "c592df4a86933b92addc9842402ddf198c638ea9be58916ee6e3734e1e3152f8"
      [] password = "pw2" ->
            "93915a0a4bf8f634cb1856494dd4304472ad46b9827f541f76b6761c49cc55b0"

\* username TEXT UNIQUE NOT NULL: the INSERT raises IntegrityError
UsernameTaken(username) ==
    \E i \in DOMAIN users : users[i].username = username

NoUser == << >>

\* The INSERT of a connection while another connection holds the write lock:
\* after the busy timeout of connect() it raises OperationalError
\* ("database is locked"), which no helper catches.
Raised(op) ==
    [op |-> op, ok |-> FALSE, msg |-> "OperationalError: database is locked",
     user |-> NoUser]

\* register_user up to the evaluation of the INSERT's arguments, the clock
\* reading among them
register_user_begin(s, username, password) ==
    /\ pc[s] = "idle"
    /\ pc' = [pc EXCEPT ![s] = "register_user"]
    /\ frame' = [frame EXCEPT ![s] = [NoFrame EXCEPT !.username = username,
                                                     !.password = password,
                                                     !.now = NowLocal]]
    /\ UNCHANGED <<users, tasks, clock, tz, ret, locked, lastChange>>

\* register_user: the INSERT, the commit and the return.  On IntegrityError
\* the connection is neither rolled back nor closed: the transaction its
\* INSERT opened keeps the write lock until the connection object is
\* collected.
register_user_commit(s) ==
    /\ pc[s] = "register_user"
    /\ IF locked
       THEN /\ users' = users
            /\ ret' = Raised("register_user")
            /\ locked' = locked
       ELSE IF UsernameTaken(frame[s].username)
       THEN /\ users' = users
            /\ ret' = [op |-> "register_user", ok |-> FALSE,
                       msg |-> "Username already taken", user |-> NoUser]
            /\ locked' = TRUE
       ELSE /\ users' = Append(users,
                    [id |-> Len(users) + 1,
                     username |-> frame[s].username,
                     password_hash |-> hash_password(frame[s].password),
                     created_at |-> frame[s].now])
            /\ ret' = [op |-> "register_user", ok |-> TRUE,
                       msg |-> "Registered successfully", user |-> NoUser]
            /\ locked' = locked
    /\ Return(s)
    /\ UNCHANGED <<tasks, clock, tz, lastChange>>

\* The interpreter collects the connection a refused registration left
\* behind; closing it rolls its transaction back and frees the write lock.
CollectConnection ==
    /\ locked
    /\ locked' = FALSE
    /\ UNCHANGED <<users, tasks, clock, tz, pc, frame, ret, lastChange>>

\* the value login_user returns: (ok, user)
login_user(username, password) ==
    LET rows == SelectSeq(users, LAMBDA r : r.username = username)
    IN  IF Len(rows) = 0
        THEN [ok |-> FALSE, user |-> NoUser]
        ELSE IF rows[1].password_hash # hash_password(password)
             THEN [ok |-> FALSE, user |-> NoUser]
             ELSE [ok |-> TRUE, user |-> <<rows[1]>>]

\* a call of login_user: one SELECT, no clock reading
Login(username, password) ==
    /\ ret' = [op |-> "login_user",
               ok |-> login_user(username, password).ok,
               msg |-> "",
               user |-> login_user(username, password).user]
    /\ UNCHANGED <<users, tasks, clock, tz, pc, frame, locked, lastChange>>

----------------------------------------------------------------------------
\* Task helpers

NoChange == [task_id |-> 0, old_status |-> "", old_changed_at |-> NULL]

\* a mutant: the INSERT leaves the column pending_from out
NewTaskWithoutPendingFrom(user_id, title, description, task_date, task_time, now) ==
    [id |-> Len(tasks) + 1,
     user_id |-> user_id,
     title |-> title,
     description |-> description,
     created_at |-> now,
     task_date |-> task_date,
     task_time |-> IF task_time = NULL THEN EmptyTime ELSE task_time,
     status |-> "pending",
     status_changed_at |-> now,
     pending_from |-> NULL]

\* the row of INSERT INTO tasks (...) VALUES (...)
NewTask(user_id, title, description, task_date, task_time, now) ==
    [id |-> Len(tasks) + 1,
     user_id |-> user_id,
     title |-> title,
     description |-> description,
     created_at |-> now,
     task_date |-> task_date,
     task_time |-> IF task_time = NULL THEN EmptyTime ELSE task_time,
     status |-> "pending",
     status_changed_at |-> now,
     pending_from |-> now]

\* add_task up to and including the read of the clock
add_task_begin(s, user_id, title, description, task_date, task_time) ==
    /\ pc[s] = "idle"
    /\ pc' = [pc EXCEPT ![s] = "add_task"]
    /\ frame' = [frame EXCEPT ![s] = [NoFrame EXCEPT !.user_id = user_id,
                                                     !.title = title,
                                                     !.description = description,
                                                     !.task_date = task_date,
                                                     !.task_time = task_time,
                                                     !.now = NowIst]]
    /\ UNCHANGED <<users, tasks, clock, tz, ret, locked, lastChange>>

\* add_task: the INSERT and its commit
add_task_commit(s) ==
    /\ pc[s] = "add_task"
    /\ IF locked
       THEN tasks' = tasks
       ELSE tasks' = Append(tasks,
                        NewTask(frame[s].user_id, frame[s].title,
                                frame[s].description, frame[s].task_date,
                                frame[s].task_time, frame[s].now))
    /\ Return(s)
    /\ UNCHANGED <<users, clock, tz, ret, locked, lastChange>>

\* SELECT * FROM tasks WHERE user_id = ? AND task_date = ? ORDER BY id
get_tasks_for_date(user_id, task_date) ==
    LET rows == SelectSeq(tasks,
                    LAMBDA r : r.user_id = user_id /\ r.task_date = task_date)
    IN  OrderBy(rows, [i \in DOMAIN rows |-> rows[i].id])

\* a mutant: the pending bucket without its status filter
get_pending_tasks_all(user_id) ==
    LET rows == SelectSeq(tasks, LAMBDA r : r.user_id = user_id)
    IN  OrderBy(rows, [i \in DOMAIN rows |->
                          rows[i].task_date * 10000 + rows[i].task_time])

\* SELECT * FROM tasks WHERE user_id = ? AND status = 'pending'
\*   ORDER BY task_date, task_time
get_pending_tasks(user_id) ==
    LET rows == SelectSeq(tasks,
                    LAMBDA r : r.user_id = user_id /\ r.status = "pending")
    IN  OrderBy(rows, [i \in DOMAIN rows |->
                          rows[i].task_date * 10000 + rows[i].task_time])

\* a mutant: the new pending_from is not written on a move to pending
UpdateKeepPendingFrom(task_id, new_status, now) ==
    [i \in DOMAIN tasks |->
        IF tasks[i].id = task_id
        THEN [tasks[i] EXCEPT !.status = new_status,
                              !.status_changed_at = now,
                              !.pending_from =
                                  IF new_status = "pending" THEN @ ELSE NULL]
        ELSE tasks[i]]

\* a mutant: pending_from is written on every change, also on a move to done
UpdateNoClear(task_id, new_status, now) ==
    [i \in DOMAIN tasks |->
        IF tasks[i].id = task_id
        THEN [tasks[i] EXCEPT !.status = new_status,
                              !.status_changed_at = now,
                              !.pending_from = now]
        ELSE tasks[i]]

\* UPDATE tasks SET status = ?, status_changed_at = ?, pending_from = ?
\*   WHERE id = ?
Update(task_id, new_status, now) ==
    LET pending_from == IF new_status = "pending" THEN now ELSE NULL
    IN  [i \in DOMAIN tasks |->
            IF tasks[i].id = task_id
            THEN [tasks[i] EXCEPT !.status = new_status,
                                  !.status_changed_at = now,
                                  !.pending_from = pending_from]
            ELSE tasks[i]]

\* the row of task_id as the UPDATE finds it
Replaced(task_id) ==
    IF task_id \in DOMAIN tasks
    THEN [task_id |-> task_id,
          old_status |-> tasks[task_id].status,
          old_changed_at |-> tasks[task_id].status_changed_at]
    ELSE NoChange

\* change_task_status up to and including the read of the clock
change_task_status_begin(s, task_id, new_status) ==
    /\ pc[s] = "idle"
    /\ pc' = [pc EXCEPT ![s] = "change_task_status"]
    /\ frame' = [frame EXCEPT ![s] = [NoFrame EXCEPT !.task_id = task_id,
                                                     !.new_status = new_status,
                                                     !.now = NowLocal]]
    /\ UNCHANGED <<users, tasks, clock, tz, ret, locked, lastChange>>

\* a mutant: the timestamp is taken when the statement runs
CommitRowsClockAtCommit(s) == Update(frame[s].task_id, frame[s].new_status, NowLocal)

CommitRows(s) == Update(frame[s].task_id, frame[s].new_status, frame[s].now)

\* change_task_status: the UPDATE and its commit
change_task_status_commit(s) ==
    /\ pc[s] = "change_task_status"
    /\ tasks' = IF locked THEN tasks ELSE CommitRows(s)
    /\ Return(s)
    /\ UNCHANGED <<users, clock, tz, ret, locked>>

\* a mutant: the end of the range is exclusive
get_history_exclusive_end(user_id, start_date, end_date) ==
    LET rows == SelectSeq(tasks, LAMBDA r :
                    /\ r.user_id = user_id
                    /\ (start_date # NoDate => r.task_date >= start_date)
                    /\ (end_date # NoDate => r.task_date < end_date))
    IN  OrderBy(rows, [i \in DOMAIN rows |->
                          (0 - rows[i].task_date) * 10000 + rows[i].task_time])

\* SELECT * FROM tasks WHERE user_id = ? [AND task_date >= ?]
\*   [AND task_date <= ?] ORDER BY task_date DESC, task_time
get_history(user_id, start_date, end_date) ==
    LET rows == SelectSeq(tasks, LAMBDA r :
                    /\ r.user_id = user_id
                    /\ (start_date # NoDate => r.task_date >= start_date)
                    /\ (end_date # NoDate => r.task_date <= end_date))
    IN  OrderBy(rows, [i \in DOMAIN rows |->
                          (0 - rows[i].task_date) * 10000 + rows[i].task_time])

----------------------------------------------------------------------------
\* Pages

\* p['pending_from'] or p['created_at']
Stored(p) == IF p.pending_from # NULL THEN p.pending_from ELSE p.created_at

\* Pending Bucket: the text shown after "Pending since:"; fromisoformat
\* raises on a value that is no timestamp, and on nothing else
PendingSince(p) ==
    LET pending_from == Stored(p)
    IN  IF pending_from = NULL
        THEN [fmt |-> "raw", raw |-> pending_from,
              days |-> 0, hours |-> 0, mins |-> 0]
        ELSE LET delta == UtcNow - pending_from
                 days == delta \div 86400
                 seconds == delta % 86400
             IN  [fmt |-> "duration", raw |-> pending_from,
                  days |-> days,
                  hours |-> seconds \div 3600,
                  mins |-> (seconds % 3600) \div 60]

\* History: display_df.groupby('task_date').agg(...).reset_index()
DayWiseSummary(hist) ==
    LET dates == {hist[i].task_date : i \in DOMAIN hist}
        row(d) == [task_date |-> d,
                   total_tasks |-> Cardinality({i \in DOMAIN hist :
                                        hist[i].task_date = d}),
                   done |-> Cardinality({i \in DOMAIN hist :
                                        hist[i].task_date = d
                                        /\ hist[i].status = "done"}),
                   pending |-> Cardinality({i \in DOMAIN hist :
                                        hist[i].task_date = d
                                        /\ hist[i].status = "pending"})]
    IN  [k \in 1..Cardinality(dates) |->
            row(CHOOSE d \in dates : Cardinality({e \in dates : e < d}) = k - 1)]

----------------------------------------------------------------------------
\* The system clock advances

Tick ==
    /\ clock + ClockStep <= MaxTicks * ClockStep
    /\ clock' = clock + ClockStep
    /\ UNCHANGED <<users, tasks, tz, pc, frame, ret, locked, lastChange>>

----------------------------------------------------------------------------
\* Specifications

NoRet == [op |-> "none", ok |-> FALSE, msg |-> "", user |-> NoUser]

\* init_db on an empty database file; no session is inside a call
Init ==
    /\ users = << >>
    /\ tasks = << >>
    /\ clock = 0
    /\ tz \in TzOffsets
    /\ pc = [s \in Sessions |-> "idle"]
    /\ frame = [s \in Sessions |-> NoFrame]
    /\ ret = NoRet
    /\ locked = FALSE
    /\ lastChange = NoChange

\* a session calls register_user; a name not taken is tried while the users
\* stored and the registrations in progress leave room
RegisterBegin ==
    \E s \in Sessions, u \in Usernames, p \in Passwords :
        /\ UsernameTaken(u)
             \/ Len(users) + Cardinality(Inside("register_user")) < MaxUsers
        /\ register_user_begin(s, u, p)

RegisterCommit == \E s \in Sessions : register_user_commit(s)

LoginUser == \E u \in Usernames, p \in Passwords : Login(u, p)

\* a session calls add_task for any user and any day, without a time
AddTaskBegin ==
    /\ Len(tasks) + Cardinality(Inside("add_task")) < MaxTasks
    /\ \E s \in Sessions, u \in UserIds, t \in Titles, d \in Descriptions,
          dt \in Dates :
            add_task_begin(s, u, t, d, dt, NULL)

\* a session calls add_task for user 1 and day 1, without a time
AddTaskTodayBegin ==
    /\ Len(tasks) + Cardinality(Inside("add_task")) < MaxTodayTasks
    /\ \E s \in Sessions, t \in Titles, d \in Descriptions :
            add_task_begin(s, 1, t, d, 1, NULL)

AddTaskCommit == \E s \in Sessions : add_task_commit(s)

\* a session calls change_task_status for a stored task
ChangeBegin ==
    \E s \in Sessions, id \in DOMAIN tasks, st \in NewStatuses :
        change_task_status_begin(s, id, st)

ChangeCommit ==
    \E s \in Sessions :
        /\ change_task_status_commit(s)
        /\ UNCHANGED lastChange

\* the same step, with the row it replaces recorded in the history variable
ChangeCommitLogged ==
    \E s \in Sessions :
        /\ change_task_status_commit(s)
        /\ lastChange' = IF locked THEN lastChange
                                   ELSE Replaced(frame[s].task_id)

\* the credential store
NextAuth ==
    RegisterBegin \/ RegisterCommit \/ LoginUser \/ CollectConnection \/ Tick

\* the life of one user's tasks of one day, as time passes
NextLife ==
    \/ AddTaskTodayBegin \/ AddTaskCommit
    \/ ChangeBegin \/ ChangeCommitLogged
    \/ Tick

\* the tasks of several users and days, and the queries on them, while the
\* clock shows one instant
NextQuery == AddTaskBegin \/ AddTaskCommit \/ ChangeBegin \/ ChangeCommit

Next == NextAuth \/ NextLife \/ NextQuery

SpecAuth == Init /\ [][NextAuth]_vars

SpecLife == Init /\ [][NextLife]_vars

SpecQuery == Init /\ [][NextQuery]_vars

Spec == Init /\ [][Next]_vars

----------------------------------------------------------------------------
\* Properties

InRange(r, user_id, start_date, end_date) ==
    /\ r.user_id = user_id
    /\ (start_date = NoDate \/ r.task_date >= start_date)
    /\ (end_date = NoDate \/ r.task_date <= end_date)

\* the step is the UPDATE of session s, and no lock keeps it from the table
Commits(s) ==
    /\ pc[s] = "change_task_status"
    /\ pc'[s] = "idle"
    /\ ~locked

\* C1: every stored task has a pending_from exactly when its status is
\* pending: add_task and every change to pending set it, every change to done
\* clears it.
C1_PendingFromIffPending ==
    \A i \in DOMAIN tasks :
        (tasks[i].pending_from # NULL) <=> (tasks[i].status = "pending")

\* a change to done has cleared the pending_from of a pending task
C1_Witness ==
    /\ lastChange.task_id \in DOMAIN tasks
    /\ lastChange.old_status = "pending"
    /\ tasks[lastChange.task_id].status = "done"
    /\ tasks[lastChange.task_id].pending_from = NULL

\* C2: the status of every stored task is pending or done, whatever
\* new_status change_task_status is given.
C2_StatusPendingOrDone ==
    \A i \in DOMAIN tasks : tasks[i].status \in {"pending", "done"}

\* C3: a change to pending of a task that a change to done left done writes
\* the clock reading of that call into pending_from and status_changed_at, so
\* pending_from is not the creation time unless the clock reads the same.
C3_PendingFromRefreshed ==
    [][\A s \in Sessions :
          (/\ Commits(s)
           /\ frame[s].new_status = "pending"
           /\ tasks[frame[s].task_id].status = "done")
          => LET before == tasks[frame[s].task_id]
                 after == tasks'[frame[s].task_id]
             IN  /\ after.status = "pending"
                 /\ after.pending_from = frame[s].now
                 /\ after.pending_from = after.status_changed_at
                 /\ after.created_at = before.created_at
                 /\ (frame[s].now # before.created_at
                       => after.pending_from # after.created_at)]_vars

\* a done task was set back to pending by a call made after the clock moved
C3_Witness ==
    /\ lastChange.task_id \in DOMAIN tasks
    /\ lastChange.old_status = "done"
    /\ tasks[lastChange.task_id].status = "pending"
    /\ tasks[lastChange.task_id].pending_from > tasks[lastChange.task_id].created_at
    /\ tasks[lastChange.task_id].pending_from = NowLocal

\* C4: after add_task for an owner, a title and a date, get_tasks_for_date of
\* that owner and date holds the new task, pending and with pending_from equal
\* to created_at.
C4_CreateThenListByDate ==
    [][\A s \in Sessions, u \in UserIds, t \in Titles, dt \in Dates :
          (/\ pc[s] = "add_task" /\ pc'[s] = "idle" /\ ~locked
           /\ frame[s].user_id = u
           /\ frame[s].title = t
           /\ frame[s].task_date = dt)
          => \E k \in DOMAIN get_tasks_for_date(u, dt)' :
                LET r == get_tasks_for_date(u, dt)'[k]
                IN  /\ r.id = Len(tasks) + 1
                    /\ r \notin Range(tasks)
                    /\ r.user_id = u
                    /\ r.title = t
                    /\ r.task_date = dt
                    /\ r.status = "pending"
                    /\ r.pending_from # NULL
                    /\ r.pending_from = r.created_at]_vars

\* the second task of an owner and a date is stored, the first being done,
\* and no call is in progress
C4_Witness ==
    /\ Len(tasks) = 2
    /\ Len(get_tasks_for_date(tasks[2].user_id, tasks[2].task_date)) = 2
    /\ tasks[1].status = "done"
    /\ tasks[2].status = "pending"
    /\ tasks[2].pending_from = tasks[2].created_at
    /\ \A s \in Sessions : pc[s] = "idle"

\* C5: get_pending_tasks of an owner never returns a done task nor a task of
\* another user.
C5_PendingBucketScoped ==
    \A u \in UserIds :
        \A k \in DOMAIN get_pending_tasks(u) :
            /\ get_pending_tasks(u)[k].status # "done"
            /\ get_pending_tasks(u)[k].user_id = u
            /\ get_pending_tasks(u)[k] \in Range(tasks)

\* a user has a done task and another user a pending one, which is all the
\* pending bucket of that other user holds
C5_Witness ==
    /\ Len(tasks) = 2
    /\ tasks[1].user_id # tasks[2].user_id
    /\ tasks[1].status = "done"
    /\ tasks[2].status = "pending"
    /\ get_pending_tasks(tasks[1].user_id) = << >>
    /\ get_pending_tasks(tasks[2].user_id) = <<tasks[2]>>

\* C6: get_history of an owner and a range returns exactly the tasks of that
\* owner whose task_date lies in the range, both ends included, whatever
\* their status; an omitted end leaves that side open.
C6_HistoryRange ==
    \A u \in UserIds, sd \in HistoryDates, ed \in HistoryDates :
        LET hist == get_history(u, sd, ed)
            want == {r \in Range(tasks) : InRange(r, u, sd, ed)}
        IN  /\ Range(hist) = want
            /\ Len(hist) = Cardinality(want)

\* an owner has a done task on day 1 and a pending one on day 2, and the
\* history of the one day 2 holds the second only
C6_Witness ==
    /\ Len(tasks) = 2
    /\ tasks[1].user_id = tasks[2].user_id
    /\ tasks[1].task_date = 1 /\ tasks[2].task_date = 2
    /\ tasks[1].status = "done" /\ tasks[2].status = "pending"
    /\ get_history(tasks[1].user_id, 2, 2) = <<tasks[2]>>
    /\ Len(get_history(tasks[1].user_id, 1, NoDate)) = 2

\* C7: the day-wise summary of every history has one row for each task_date
\* in it, and in each row total_tasks = done + pending.
C7_SummaryTotals ==
    \A u \in UserIds, sd \in HistoryDates, ed \in HistoryDates :
        LET hist == get_history(u, sd, ed)
            summary == DayWiseSummary(hist)
        IN  /\ Len(summary) = Cardinality({hist[i].task_date : i \in DOMAIN hist})
            /\ \A k \in DOMAIN summary :
                  summary[k].total_tasks = summary[k].done + summary[k].pending

\* C8: registering a taken username fails with "Username already taken" and
\* leaves the users as they are, usernames stay unique, and login_user with
\* the username and password of a successful registration returns that user.
C8_RegisterAndLogin ==
    /\ [](/\ \A i, j \in DOMAIN users :
                users[i].username = users[j].username => i = j
          /\ \A i \in DOMAIN users, p \in Passwords :
                users[i].password_hash = hash_password(p)
                => login_user(users[i].username, p)
                     = [ok |-> TRUE, user |-> <<users[i]>>])
    /\ [][\A s \in Sessions, u \in Usernames, p \in Passwords :
            (/\ pc[s] = "register_user" /\ pc'[s] = "idle"
             /\ frame[s].username = u
             /\ frame[s].password = p)
            => IF UsernameTaken(u)
               THEN /\ users' = users
                    /\ ~ret'.ok
                    /\ ret'.msg = "Username already taken"
               ELSE /\ ret'.ok
                    /\ Len(users') = Len(users) + 1
                    /\ SubSeq(users', 1, Len(users)) = users
                    /\ users'[Len(users')].username = u
                    /\ users'[Len(users')].id = Len(users) + 1
                    /\ login_user(u, p)'
                         = [ok |-> TRUE, user |-> <<users'[Len(users')]>>]]_vars

\* C9: the pending duration shown is never negative: a stored timestamp later
\* than the current time is shown raw.
C9_DurationNotNegative ==
    \A u \in UserIds :
        \A k \in DOMAIN get_pending_tasks(u) :
            LET p == get_pending_tasks(u)[k]
                since == PendingSince(p)
            IN  /\ since.fmt = "duration" => since.days >= 0
                /\ Stored(p) > UtcNow => since.fmt = "raw"

\* C10, as stated: the update that commits writes its timestamp, and
\* status_changed_at never moves backwards nor lies before created_at.
C10_NeverBackwards ==
    [][\A s \in Sessions :
          Commits(s)
          => \A i \in DOMAIN tasks :
                /\ i = frame[s].task_id
                     => tasks'[i].status_changed_at = frame[s].now
                /\ tasks'[i].status_changed_at >= tasks[i].status_changed_at
                /\ tasks'[i].status_changed_at >= tasks'[i].created_at]_vars

\* C10, amended: the update that commits writes the clock reading its call
\* took and its status into its task and leaves every other task alone.
C10_LastWriteWins ==
    [][\A s \in Sessions :
          Commits(s)
          => \A i \in DOMAIN tasks :
                IF i = frame[s].task_id
                THEN /\ tasks'[i].status_changed_at = frame[s].now
                     /\ tasks'[i].status = frame[s].new_status
                     /\ tasks'[i].created_at = tasks[i].created_at
                ELSE tasks'[i] = tasks[i]]_vars

\* on a server in the zone of created_at, the update that committed last
\* moved status_changed_at backwards: its call read the clock before the
\* call whose update it replaced
C10_Witness ==
    /\ tz = IstOffset
    /\ lastChange.task_id \in DOMAIN tasks
    /\ tasks[lastChange.task_id].status_changed_at < lastChange.old_changed_at
    /\ tasks[lastChange.task_id].status_changed_at < NowLocal

====
